---- MODULE Spec2Model ----
(***************************************************************************)
(* The EVM contract actor of actors/evm/src/lib.rs: the four operations    *)
(* deploy (constructor), invoke_contract, bytecode and storage_at, acting  *)
(* on the actor's persisted record {bytecode, contract_state}.             *)
(*                                                                         *)
(* One call is processed at a time.  An action draws a message (caller,    *)
(* method number, parameter bytes) and what the engine and the host do     *)
(* during the call, runs invoke_method on it, the dispatcher and the WHOLE *)
(* handler it reaches, and leaves the call's record in `last`; Return      *)
(* hands the result back to the host and clears it.                        *)
(*                                                                         *)
(* The block store is content addressed: a Cid is modelled as the codec    *)
(* and the (collision-free) digest of the block, so a reference determines *)
(* the only block it can resolve to.  Whether the store can produce the    *)
(* block is the host's business and is drawn as a host fault.              *)
(***************************************************************************)
EXTENDS Integers, Sequences, FiniteSets, TLC

VARIABLES state, deleted, last

vars == <<state, deleted, last>>

-----------------------------------------------------------------------------
(* Bounds of the model *)

\* storage keys are 1..MaxKey
MaxKey == 1
\* storage values are 1..MaxVal
MaxVal == 2
\* byte strings are Repeat(fill, len) with fill in 0..MaxFill
MaxFill == 0
\* the ID addresses a self-destruct can name are 0..MaxAddr
MaxAddr == 1

-----------------------------------------------------------------------------
(* Program constants *)

Shl(a, n) == a * 2^n

MAX_CODE_SIZE == Shl(24, 10)

EVM_CONTRACT_REVERTED == 27

\* fvm_shared::METHOD_CONSTRUCTOR, the platform's constructor method number
METHOD_CONSTRUCTOR == 1

\* enum Method (lib.rs 51-58): the discriminant of each variant
Method ==
  [Constructor |-> METHOD_CONSTRUCTOR, InvokeContract |-> 2, GetBytecode |-> 3,
   GetStorageAt |-> 4]

-----------------------------------------------------------------------------
(* Values *)

None == <<>>
Some(v) == <<v>>

Unit == "()"

\* a byte string of `len` bytes, each equal to `fill`
Repeat(fill, len) == [len |-> len, fill |-> IF len = 0 THEN 0 ELSE fill]

Lens == {0, MAX_CODE_SIZE, MAX_CODE_SIZE + 1}

Bytes == {Repeat(f, l) : f \in 0..MaxFill, l \in Lens}

is_empty(b) == b.len = 0

Keys == 1..MaxKey

Values == 1..MaxVal

Addrs == 0..MaxAddr

\* the callers of a message: ID address 0 and another actor
Callers == {0, 1}

\* the slots of a storage trie: a function from the keys written to their values
Slots == UNION {[D -> Values] : D \in SUBSET Keys}

Ok(v) == [ok |-> TRUE, val |-> v]
Err(e) == [ok |-> FALSE, err |-> e]

\* ActorError constructors
ActorErr(code, msg) == [exit_code |-> code, msg |-> msg]
illegal_argument(msg) == ActorErr(16, msg)
not_found(msg) == ActorErr(17, msg)
forbidden(msg) == ActorErr(18, msg)
illegal_state(msg) == ActorErr(20, msg)
unspecified(msg) == ActorErr(23, msg)
unchecked(code, msg) == ActorErr(code, msg)

\* U256 on the wire: its big-endian bytes without leading zeros, one byte for
\* the values below 256 used here
U256_to_bytes(n) == IF n = 0 THEN Repeat(0, 0) ELSE Repeat(n, 1)

\* U256 from big-endian bytes (at most 32 of them)
U256_from_bytes(b) == b.fill * ((256^b.len - 1) \div 255)

\* RawBytes holding plain bytes
Raw(b) == [type |-> "raw", v |-> <<b>>]

\* RawBytes::serialize: a parameter record is a one-element tuple holding its
\* field, and RawBytes and U256 fields are both byte strings
serialize(type, v) ==
  IF type = "ConstructorParams" THEN [type |-> "tuple", v |-> <<v.bytecode>>]
  ELSE IF type = "GetStorageAtParams"
  THEN [type |-> "tuple", v |-> <<U256_to_bytes(v.storage_key)>>]
  ELSE IF type = "U256" THEN [type |-> "bytes", v |-> <<U256_to_bytes(v)>>]
  ELSE [type |-> "cid", v |-> <<v>>]

\* RawBytes::default()
RawBytes_default == Raw(Repeat(0, 0))

\* cbor::deserialize_params: any one-element tuple of a byte string decodes as
\* ConstructorParams, and as GetStorageAtParams when the string has at most
\* 32 bytes
deserialize_params(raw, type) ==
  IF raw.type # "tuple"
  THEN Err(ActorErr(21, "failed to deserialize params"))
  ELSE IF type = "ConstructorParams"
  THEN Ok([bytecode |-> raw.v[1]])
  ELSE IF raw.v[1].len <= 32
  THEN Ok([storage_key |-> U256_from_bytes(raw.v[1])])
  ELSE Err(ActorErr(21, "failed to deserialize params"))

\* content reference of a block
Cid(codec, block) == [codec |-> codec, digest |-> block]

\* Blockstore::get of a reference the store holds
store_get(cid) == cid.digest

-----------------------------------------------------------------------------
(* The execution engine's contract: StatusCode and the outcome of execute *)

StatusCode(tag, e) == [tag |-> tag, e |-> e]
Success == StatusCode("Success", None)
Failure == StatusCode("Failure", None)
ActorError(e) == StatusCode("ActorError", Some(e))

\* the typed faults the engine reports
TypedFaults == {illegal_argument("engine: nested call failed")}

StatusCodes == {Success, Failure} \cup {ActorError(e) : e \in TypedFaults}

\* execute returned Ok(exec_status); `writes` are the slots the program stored
\* into the trie it was given while it ran
ExecOutcome(rev, sc, out, sd, w) ==
  [ok |-> TRUE, reverted |-> rev, status_code |-> sc, output_data |-> out,
   selfdestroyed |-> sd, writes |-> w]

\* execute returned Err(status)
ExecError(sc) ==
  [ok |-> FALSE, reverted |-> FALSE, status_code |-> sc, output_data |-> Repeat(0, 0),
   selfdestroyed |-> None, writes |-> <<>>]

\* the engine was not run in the call
NoExec == ExecError(StatusCode("NotRun", None))

ExecResults ==
  {ExecOutcome(rev, sc, out, sd, w) :
     rev \in BOOLEAN, sc \in StatusCodes, out \in Bytes,
     sd \in {None} \cup {Some(a) : a \in Addrs}, w \in Slots}
  \cup {ExecError(sc) : sc \in StatusCodes \ {Success}}

-----------------------------------------------------------------------------
(* Storage trie, abstraction layer and persisted record *)

\* Kamt::new_with_config: an empty trie
Kamt_new == <<>>

\* Kamt::load_with_config of a root the store holds
Kamt_load(root) == store_get(root)

\* the trie after the program's stores
Kamt_set(kamt, writes) ==
  [k \in (DOMAIN kamt) \cup (DOMAIN writes) |->
     IF k \in DOMAIN writes THEN writes[k] ELSE kamt[k]]

\* System::get_storage
get_storage(kamt, key) == IF key \in DOMAIN kamt THEN Some(kamt[key]) ELSE None

\* System::flush_state: the root reference of the flushed trie
flush_state(kamt) == Cid("dag-cbor", kamt)

\* State::new: store the bytes, pair their reference with the trie root
State_new(bytecode, contract_state) ==
  [bytecode |-> Cid("raw", bytecode), contract_state |-> contract_state]

-----------------------------------------------------------------------------
(* Handlers.  rt = [caller, state, deleted]; host = [fault, exec]: the host *)
(* call that fails during the call (or "none") and what execute returns.    *)
(* Each handler yields [rt, ret, trace]: the runtime after the call, the    *)
(* result, and the host and library calls made, in order.                   *)

Done(rt, trace, ret) == [rt |-> rt, ret |-> ret, trace |-> trace]

\* a map_err that wraps every error of execute
execute_map_err_wraps_all(e) == unspecified("EVM execution error")

\* the map_err of execute's error (lib.rs 97-100, 175-178)
execute_map_err(e) ==
  IF e.tag = "ActorError" THEN e.e[1] ELSE unspecified("EVM execution error")

\* Runtime::create: fails when the actor already has a record
rt_create(rt, st) == [rt EXCEPT !.state = Some(st)]

\* a transaction that writes the whole record from the new root
rt_transaction_clobbers_bytecode(rt, contract_state) ==
  [rt EXCEPT !.state = Some([bytecode |-> contract_state, contract_state |-> contract_state])]

\* a transaction whose closure leaves the record as it was
rt_transaction_keeps_root(rt, contract_state) == rt

\* Runtime::transaction with the closure of invoke_contract (lib.rs 190-193):
\* only contract_state is assigned
rt_transaction(rt, contract_state) ==
  [rt EXCEPT !.state = Some([rt.state[1] EXCEPT !.contract_state = contract_state])]

\* Runtime::delete_actor: the executing actor and its record are removed
rt_delete_actor(rt) == [rt EXCEPT !.state = None, !.deleted = TRUE]

\* a deploy that persists the bytecode it was given
contract_bytecode_submitted(params, exec_status) == params.bytecode

\* the code the deploy persists (lib.rs 113): the engine's output
contract_bytecode(params, exec_status) == exec_status.output_data

\* outcome handling without the check for an empty contract
constructor_outcome_keeps_empty(rt, params, kamt, exec_status, host, t) ==
  IF exec_status.reverted
  THEN Done(rt, t, Err(unchecked(EVM_CONTRACT_REVERTED, "constructor reverted")))
  ELSE IF exec_status.status_code = Success
  THEN LET t1 == Append(t, "flush_state")
           t2 == Append(t1, "State::new")
           t3 == Append(t2, "create")
       IN IF host.fault = "flush_state"
          THEN Done(rt, t1, Err(illegal_state("failed to flush state")))
          ELSE IF host.fault = "State::new"
          THEN Done(rt, t2, Err(illegal_state("failed to construct state")))
          ELSE IF rt.state # None
          THEN Done(rt, t3, Err(illegal_state("state already constructed")))
          ELSE Done(rt_create(rt, State_new(contract_bytecode(params, exec_status),
                                            flush_state(kamt))),
                    t3, Ok(Unit))
  ELSE IF exec_status.status_code.tag = "ActorError"
  THEN Done(rt, t, Err(exec_status.status_code.e[1]))
  ELSE Done(rt, t, Err(unspecified("EVM constructor failed")))

\* outcome handling that tests the status before the reverted flag
constructor_outcome_status_first(rt, params, kamt, exec_status, host, t) ==
  IF exec_status.status_code = Success
  THEN IF is_empty(exec_status.output_data)
       THEN Done(rt, t, Err(unspecified("EVM constructor returned empty contract")))
       ELSE LET t1 == Append(t, "flush_state")
                t2 == Append(t1, "State::new")
                t3 == Append(t2, "create")
            IN IF host.fault = "flush_state"
               THEN Done(rt, t1, Err(illegal_state("failed to flush state")))
               ELSE IF host.fault = "State::new"
               THEN Done(rt, t2, Err(illegal_state("failed to construct state")))
               ELSE IF rt.state # None
               THEN Done(rt, t3, Err(illegal_state("state already constructed")))
               ELSE Done(rt_create(rt, State_new(contract_bytecode(params, exec_status),
                                                 flush_state(kamt))),
                         t3, Ok(Unit))
  ELSE IF exec_status.reverted
  THEN Done(rt, t, Err(unchecked(EVM_CONTRACT_REVERTED, "constructor reverted")))
  ELSE IF exec_status.status_code.tag = "ActorError"
  THEN Done(rt, t, Err(exec_status.status_code.e[1]))
  ELSE Done(rt, t, Err(unspecified("EVM constructor failed")))

\* constructor, from the engine's outcome on (lib.rs 102-132)
constructor_outcome(rt, params, kamt, exec_status, host, t) ==
  IF exec_status.reverted
  THEN Done(rt, t, Err(unchecked(EVM_CONTRACT_REVERTED, "constructor reverted")))
  ELSE IF exec_status.status_code = Success
  THEN IF is_empty(exec_status.output_data)
       THEN Done(rt, t, Err(unspecified("EVM constructor returned empty contract")))
       ELSE LET t1 == Append(t, "flush_state")
                t2 == Append(t1, "State::new")
                t3 == Append(t2, "create")
            IN IF host.fault = "flush_state"
               THEN Done(rt, t1, Err(illegal_state("failed to flush state")))
               ELSE IF host.fault = "State::new"
               THEN Done(rt, t2, Err(illegal_state("failed to construct state")))
               ELSE IF rt.state # None
               THEN Done(rt, t3, Err(illegal_state("state already constructed")))
               ELSE Done(rt_create(rt, State_new(contract_bytecode(params, exec_status),
                                                 flush_state(kamt))),
                         t3, Ok(Unit))
  ELSE IF exec_status.status_code.tag = "ActorError"
  THEN Done(rt, t, Err(exec_status.status_code.e[1]))
  ELSE Done(rt, t, Err(unspecified("EVM constructor failed")))

\* a size check that is off by one
bytecode_too_long_at_limit(params) == params.bytecode.len >= MAX_CODE_SIZE

\* the size check of the submitted bytecode (lib.rs 69)
bytecode_too_long(params) == params.bytecode.len > MAX_CODE_SIZE

\* a deploy that flushes a fresh trie, not the one the program ran on
constructor_kamt_fresh(exec) == Kamt_new

\* the trie the constructor program ran on (lib.rs 81-100): opened empty, then
\* holding what the program stored
constructor_kamt(exec) == Kamt_set(Kamt_new, exec.writes)

\* EvmContractActor::constructor (lib.rs 62-133)
constructor(rt, params, host) ==
  LET t0 == <<"validate_immediate_caller_accept_any">>
      t1 == t0 \o <<"Kamt::new_with_config", "System::new">>
      t2 == Append(t1, "Bytecode::new")
      t3 == Append(t2, "execute")
  IN IF bytecode_too_long(params)
     THEN Done(rt, t0, Err(illegal_argument("EVM byte code length is exceeding the maximum allowed")))
     ELSE IF is_empty(params.bytecode)
     THEN Done(rt, t0, Err(illegal_argument("no bytecode provided")))
     ELSE IF host.fault = "System::new"
     THEN Done(rt, t1, Err(unspecified("failed to create execution abstraction layer")))
     ELSE IF host.fault = "Bytecode::new"
     THEN Done(rt, t2, Err(unspecified("failed to parse bytecode")))
     ELSE IF ~host.exec.ok
     THEN Done(rt, t3, Err(execute_map_err(host.exec.status_code)))
     ELSE constructor_outcome(rt, params, constructor_kamt(host.exec), host.exec, host, t3)

\* a self-destruct that returns no output
invoke_finish_drops_output(rt, exec_status, host, t) ==
  IF exec_status.selfdestroyed # None
  THEN IF host.fault = "delete_actor"
       THEN Done(rt, Append(t, "delete_actor"), Err(illegal_argument("delete_actor failed")))
       ELSE Done(rt_delete_actor(rt), Append(t, "delete_actor"), Ok(Repeat(0, 0)))
  ELSE Done(rt, t, Ok(exec_status.output_data))

\* invoke_contract, the self-destruct and the result (lib.rs 203-208)
invoke_finish(rt, exec_status, host, t) ==
  IF exec_status.selfdestroyed # None
  THEN IF host.fault = "delete_actor"
       THEN Done(rt, Append(t, "delete_actor"), Err(illegal_argument("delete_actor failed")))
       ELSE Done(rt_delete_actor(rt), Append(t, "delete_actor"), Ok(exec_status.output_data))
  ELSE Done(rt, t, Ok(exec_status.output_data))

\* outcome handling that tests the status before the reverted flag
invoke_outcome_status_first(rt, kamt, exec_status, host, t) ==
  IF exec_status.status_code = Success
  THEN LET t1 == Append(t, "flush_state")
           t2 == Append(t1, "transaction")
       IN IF host.fault = "flush_state"
          THEN Done(rt, t1, Err(illegal_state("failed to flush state")))
          ELSE IF host.fault = "transaction"
          THEN Done(rt, t2, Err(illegal_state("failed to load state")))
          ELSE invoke_finish(rt_transaction(rt, flush_state(kamt)), exec_status, host, t2)
  ELSE IF exec_status.reverted
  THEN Done(rt, t, Err(unchecked(EVM_CONTRACT_REVERTED, "contract reverted")))
  ELSE IF exec_status.status_code.tag = "ActorError"
  THEN Done(rt, t, Err(exec_status.status_code.e[1]))
  ELSE Done(rt, t, Err(unspecified("EVM contract invocation failed")))

\* outcome handling that deletes a self-destructed actor before looking at
\* the outcome
invoke_outcome_delete_first(rt, kamt, exec_status, host, t) ==
  IF exec_status.selfdestroyed # None
  THEN invoke_finish(rt, exec_status, host, t)
  ELSE IF exec_status.reverted
  THEN Done(rt, t, Err(unchecked(EVM_CONTRACT_REVERTED, "contract reverted")))
  ELSE IF exec_status.status_code = Success
  THEN LET t1 == Append(t, "flush_state")
           t2 == Append(t1, "transaction")
       IN IF host.fault = "flush_state"
          THEN Done(rt, t1, Err(illegal_state("failed to flush state")))
          ELSE IF host.fault = "transaction"
          THEN Done(rt, t2, Err(illegal_state("failed to load state")))
          ELSE Done(rt_transaction(rt, flush_state(kamt)), t2, Ok(exec_status.output_data))
  ELSE IF exec_status.status_code.tag = "ActorError"
  THEN Done(rt, t, Err(exec_status.status_code.e[1]))
  ELSE Done(rt, t, Err(unspecified("EVM contract invocation failed")))

\* invoke_contract, from the engine's outcome on (lib.rs 180-208)
invoke_outcome(rt, kamt, exec_status, host, t) ==
  IF exec_status.reverted
  THEN Done(rt, t, Err(unchecked(EVM_CONTRACT_REVERTED, "contract reverted")))
  ELSE IF exec_status.status_code = Success
  THEN LET t1 == Append(t, "flush_state")
           t2 == Append(t1, "transaction")
       IN IF host.fault = "flush_state"
          THEN Done(rt, t1, Err(illegal_state("failed to flush state")))
          ELSE IF host.fault = "transaction"
          THEN Done(rt, t2, Err(illegal_state("failed to load state")))
          ELSE invoke_finish(rt_transaction(rt, flush_state(kamt)), exec_status, host, t2)
  ELSE IF exec_status.status_code.tag = "ActorError"
  THEN Done(rt, t, Err(exec_status.status_code.e[1]))
  ELSE Done(rt, t, Err(unspecified("EVM contract invocation failed")))

\* an invoke that loads the trie before it loads and parses the code
invoke_contract_trie_first(rt, method, input_data, host) ==
  LET t0 == <<"validate_immediate_caller_accept_any", "state">>
      t1 == Append(t0, "Kamt::load_with_config")
      t2 == Append(t1, "store.get")
      t3 == Append(t2, "Bytecode::new")
      t4 == Append(t3, "System::new")
      t5 == Append(t4, "execute")
  IN IF rt.state = None
     THEN Done(rt, t0, Err(illegal_state("failed to load state")))
     ELSE IF host.fault = "Kamt::load_with_config"
     THEN Done(rt, t1, Err(illegal_state("failed to load storage KAMT on invoke")))
     ELSE IF host.fault = "store.get"
     THEN Done(rt, t2, Err(unspecified("failed to load bytecode")))
     ELSE IF host.fault = "store.get/None"
     THEN Done(rt, t2, Err(unspecified("missing bytecode")))
     ELSE IF host.fault = "Bytecode::new"
     THEN Done(rt, t3, Err(unspecified("failed to parse bytecode")))
     ELSE IF host.fault = "System::new"
     THEN Done(rt, t4, Err(unspecified("failed to create execution abstraction layer")))
     ELSE IF ~host.exec.ok
     THEN Done(rt, t5, Err(execute_map_err(host.exec.status_code)))
     ELSE invoke_outcome(rt, Kamt_set(Kamt_load(rt.state[1].contract_state), host.exec.writes),
                         host.exec, host, t5)

\* EvmContractActor::invoke_contract (lib.rs 135-209)
invoke_contract(rt, method, input_data, host) ==
  LET t0 == <<"validate_immediate_caller_accept_any", "state">>
      t1 == Append(t0, "store.get")
      t2 == Append(t1, "Bytecode::new")
      t3 == Append(t2, "Kamt::load_with_config")
      t4 == Append(t3, "System::new")
      t5 == Append(t4, "execute")
  IN IF rt.state = None
     THEN Done(rt, t0, Err(illegal_state("failed to load state")))
     ELSE IF host.fault = "store.get"
     THEN Done(rt, t1, Err(unspecified("failed to load bytecode")))
     ELSE IF host.fault = "store.get/None"
     THEN Done(rt, t1, Err(unspecified("missing bytecode")))
     ELSE IF host.fault = "Bytecode::new"
     THEN Done(rt, t2, Err(unspecified("failed to parse bytecode")))
     ELSE IF host.fault = "Kamt::load_with_config"
     THEN Done(rt, t3, Err(illegal_state("failed to load storage KAMT on invoke")))
     ELSE IF host.fault = "System::new"
     THEN Done(rt, t4, Err(unspecified("failed to create execution abstraction layer")))
     ELSE IF ~host.exec.ok
     THEN Done(rt, t5, Err(execute_map_err(host.exec.status_code)))
     ELSE invoke_outcome(rt, Kamt_set(Kamt_load(rt.state[1].contract_state), host.exec.writes),
                         host.exec, host, t5)

\* EvmContractActor::bytecode (lib.rs 211-221)
bytecode(rt) ==
  LET t0 == <<"validate_immediate_caller_accept_any", "state">>
  IN IF rt.state = None
     THEN Done(rt, t0, Err(illegal_state("failed to load state")))
     ELSE Done(rt, t0, Ok(rt.state[1].bytecode))

\* a caller check that lets every caller through
storage_at_callers_any == Addrs

\* the callers storage_at accepts (lib.rs 230): ID address 0
storage_at_callers == {0}

\* a read that flushes the trie it loaded and commits the root
storage_at_flushes(rt, params, host) ==
  LET t0 == <<"validate_immediate_caller_is">>
      t1 == Append(t0, "state")
      t2 == Append(t1, "Kamt::load_with_config")
      t3 == Append(t2, "System::new")
      t4 == Append(t3, "get_storage")
      t5 == t4 \o <<"flush_state", "transaction">>
  IN IF rt.caller \notin storage_at_callers
     THEN Done(rt, t0, Err(forbidden("caller not allowed")))
     ELSE IF rt.state = None
     THEN Done(rt, t1, Err(illegal_state("failed to load state")))
     ELSE IF host.fault = "Kamt::load_with_config"
     THEN Done(rt, t2, Err(illegal_state("failed to load storage KAMT on invoke")))
     ELSE IF host.fault = "System::new"
     THEN Done(rt, t3, Err(unspecified("failed to create execution abstraction layer")))
     ELSE IF host.fault = "get_storage"
     THEN Done(rt, t4, Err(unspecified("failed to get storage key")))
     ELSE LET kamt == Kamt_load(rt.state[1].contract_state)
              v == get_storage(kamt, params.storage_key)
          IN IF v = None
             THEN Done(rt, t4, Err(not_found("storage key not found")))
             ELSE Done(rt_transaction(rt, flush_state(kamt)), t5, Ok(v[1]))

\* EvmContractActor::storage_at (lib.rs 223-252)
storage_at(rt, params, host) ==
  LET t0 == <<"validate_immediate_caller_is">>
      t1 == Append(t0, "state")
      t2 == Append(t1, "Kamt::load_with_config")
      t3 == Append(t2, "System::new")
      t4 == Append(t3, "get_storage")
  IN IF rt.caller \notin storage_at_callers
     THEN Done(rt, t0, Err(forbidden("caller not allowed")))
     ELSE IF rt.state = None
     THEN Done(rt, t1, Err(illegal_state("failed to load state")))
     ELSE IF host.fault = "Kamt::load_with_config"
     THEN Done(rt, t2, Err(illegal_state("failed to load storage KAMT on invoke")))
     ELSE IF host.fault = "System::new"
     THEN Done(rt, t3, Err(unspecified("failed to create execution abstraction layer")))
     ELSE IF host.fault = "get_storage"
     THEN Done(rt, t4, Err(unspecified("failed to get storage key")))
     ELSE LET v == get_storage(Kamt_load(rt.state[1].contract_state), params.storage_key)
          IN IF v = None
             THEN Done(rt, t4, Err(not_found("storage key not found")))
             ELSE Done(rt, t4, Ok(v[1]))

\* FromPrimitive::from_u64 derived for Method (lib.rs 51-58)
Method_from_u64(n) ==
  IF n = Method.Constructor THEN Some("Constructor")
  ELSE IF n = Method.InvokeContract THEN Some("InvokeContract")
  ELSE IF n = Method.GetBytecode THEN Some("GetBytecode")
  ELSE IF n = Method.GetStorageAt THEN Some("GetStorageAt")
  ELSE None

\* ExecutionState::new (lib.rs 89, 172): the call context given to the engine
ExecutionState_new(method, input) == [method |-> method, input |-> input]

\* what invoke_method did: the operation reached ("<operation>/params" when its
\* parameters did not decode and the handler was not called), its decoded parameters, the
\* handler's outcome r, the call context the engine ran on (if it ran) and the
\* payload or error returned to the host
Dispatched(op, args, r, ctx, reply) ==
  [op |-> op, args |-> args, rt |-> r.rt, ret |-> r.ret, trace |-> r.trace,
   ctx |-> IF \E i \in DOMAIN r.trace : r.trace[i] = "execute" THEN Some(ctx) ELSE None,
   reply |-> reply]

\* invoke_contract reached from invoke_method with call-context method m
\* (lib.rs 271, 281 and 172)
dispatch_invoke(rt, m, params, host) ==
  LET r == invoke_contract(rt, m, params, host)
  IN Dispatched("InvokeContract", None, r, ExecutionState_new(m, params),
                IF r.ret.ok THEN Ok(Raw(r.ret.val)) ELSE r.ret)

\* the None arm running the program as the built-in invoke method
contract_method_as_invoke(rt, method, params, host) ==
  dispatch_invoke(rt, Method.InvokeContract, params, host)

\* the None arm of invoke_method (lib.rs 281): a method number the enum has
\* no variant for
contract_method(rt, method, params, host) == dispatch_invoke(rt, method, params, host)

\* ActorCode::invoke_method (lib.rs 256-283)
invoke_method(rt, method, params, host) ==
  LET m == Method_from_u64(method)
  IN IF m = Some("Constructor")
     THEN LET p == deserialize_params(params, "ConstructorParams")
          IN IF ~p.ok
             THEN Dispatched("Constructor/params", None, Done(rt, <<>>, p), None, p)
             ELSE LET r == constructor(rt, p.val, host)
                  IN Dispatched("Constructor", Some(p.val), r,
                                ExecutionState_new(Method.Constructor, RawBytes_default),
                                IF r.ret.ok THEN Ok(RawBytes_default) ELSE r.ret)
     ELSE IF m = Some("InvokeContract")
     THEN dispatch_invoke(rt, Method.InvokeContract, params, host)
     ELSE IF m = Some("GetBytecode")
     THEN LET r == bytecode(rt)
          IN Dispatched("GetBytecode", None, r, None,
                        IF r.ret.ok THEN Ok(serialize("Cid", r.ret.val)) ELSE r.ret)
     ELSE IF m = Some("GetStorageAt")
     THEN LET p == deserialize_params(params, "GetStorageAtParams")
          IN IF ~p.ok
             THEN Dispatched("GetStorageAt/params", None, Done(rt, <<>>, p), None, p)
             ELSE LET r == storage_at(rt, p.val, host)
                  IN Dispatched("GetStorageAt", Some(p.val), r, None,
                                IF r.ret.ok THEN Ok(serialize("U256", r.ret.val)) ELSE r.ret)
     ELSE contract_method(rt, method, params, host)

-----------------------------------------------------------------------------
(* The state machine *)

Runtime(caller) == [caller |-> caller, state |-> state, deleted |-> deleted]

NoFault == [fault |-> "none", exec |-> NoExec]

\* the library call a fault name stands for
FaultSite(f) == IF f = "store.get/None" THEN "store.get" ELSE f

InTrace(t, name) == \E i \in DOMAIN t : t[i] = name

\* the host inputs a call can tell apart: a fault is drawn only where the call
\* makes the failing call, an engine result only when the engine is run
HostActs(r, host) ==
  /\ \/ host.fault = "none"
     \/ ~r.ret.ok /\ r.trace # <<>> /\ r.trace[Len(r.trace)] = FaultSite(host.fault)
  /\ InTrace(r.trace, "execute") <=> host.exec # NoExec

NoCall ==
  [op |-> "none", caller |-> 0, bytecode |-> Repeat(0, 0), key |-> 0, method |-> 0,
   params |-> RawBytes_default, ctx |-> None, reply |-> Ok(RawBytes_default),
   host |-> NoFault, pre |-> None, ret |-> Ok(Unit), trace |-> <<>>]

\* the record of a call: the message (caller, method number, parameter bytes),
\* the host's behaviour, the record before the call and what invoke_method did
Call(caller, method, params, host, d) ==
  [op |-> d.op, caller |-> caller,
   bytecode |-> IF d.op = "Constructor" THEN d.args[1].bytecode ELSE Repeat(0, 0),
   key |-> IF d.op = "GetStorageAt" THEN d.args[1].storage_key ELSE 0,
   method |-> method, params |-> params, ctx |-> d.ctx, reply |-> d.reply,
   host |-> host, pre |-> state, ret |-> d.ret, trace |-> d.trace]

Commit(r) ==
  /\ state' = r.rt.state
  /\ deleted' = r.rt.deleted

Idle == last = NoCall /\ ~deleted

ConstructorFaults == {"none", "System::new", "Bytecode::new", "flush_state", "State::new"}

InvokeFaults ==
  {"none", "store.get", "store.get/None", "Bytecode::new", "Kamt::load_with_config",
   "System::new", "flush_state", "transaction", "delete_actor"}

StorageAtFaults == {"none", "Kamt::load_with_config", "System::new", "get_storage"}

Hosts(faults) == [fault : faults, exec : ExecResults \cup {NoExec}]

\* the method numbers calls arrive with: the enum's, 0, and a contract-defined one
MethodNums == {0, 1, 2, 3, 4, 1000000}

\* the method numbers of MethodNums the enum has no variant for
ContractMethods == {n \in MethodNums : Method_from_u64(n) = None}

\* the engine results drawn for calls of contract-defined methods: every flag,
\* status and error, with one output per length, one beneficiary and one write
ContractExecResults ==
  {e \in ExecResults :
     /\ e.output_data.fill = 0
     /\ e.selfdestroyed \in {None, Some(0)}
     /\ DOMAIN e.writes \subseteq {1}
     /\ \A k \in DOMAIN e.writes : e.writes[k] = 1}

ContractHosts == [fault : InvokeFaults, exec : ContractExecResults \cup {NoExec}]

\* parameter bytes of the typed operations: the encodings of their parameter
\* records (each decodes as the other's if its byte string fits), and bytes
\* that encode neither
RawParams ==
  {RawBytes_default}
  \cup {serialize("ConstructorParams", [bytecode |-> bc]) : bc \in Bytes}
  \cup {serialize("GetStorageAtParams", [storage_key |-> k]) : k \in Keys}

\* parameter bytes of contract invocations: call data, and none
CallData == Raw(Repeat(0, MAX_CODE_SIZE))

InvokeInputs == {RawBytes_default, CallData}

Init ==
  /\ state = None
  /\ deleted = FALSE
  /\ last = NoCall

\* invoke_method handles the message and reaches `op` (lib.rs 265-283)
Dispatch(op, caller, method, params, host) ==
  \E d \in {invoke_method(Runtime(caller), method, params, host)} :
     /\ d.op = op
     /\ HostActs(d, host)
     /\ Commit(d)
     /\ last' = Call(caller, method, params, host, d)

Constructor ==
  /\ Idle
  /\ \E caller \in Callers, params \in RawParams, host \in Hosts(ConstructorFaults) :
       Dispatch("Constructor", caller, Method.Constructor, params, host)

InvokeContract ==
  /\ Idle
  /\ \E caller \in Callers, host \in Hosts(InvokeFaults) :
       Dispatch("InvokeContract", caller, Method.InvokeContract, CallData, host)

\* a call of a method number the enum has no variant for (lib.rs 281)
InvokeContractMethod ==
  /\ Idle
  /\ \E caller \in Callers, method \in ContractMethods, params \in InvokeInputs,
        host \in ContractHosts :
       Dispatch("InvokeContract", caller, method, params, host)

GetBytecode ==
  /\ Idle
  /\ \E caller \in Callers :
       Dispatch("GetBytecode", caller, Method.GetBytecode, RawBytes_default, NoFault)

GetStorageAt ==
  /\ Idle
  /\ \E caller \in Callers, params \in RawParams, host \in Hosts(StorageAtFaults) :
       Dispatch("GetStorageAt", caller, Method.GetStorageAt, params, host)

\* a typed operation called with bytes that do not decode (lib.rs 267, 278)
BadParams ==
  /\ Idle
  /\ \E caller \in Callers, method \in {Method.Constructor, Method.GetStorageAt},
        params \in RawParams :
       \E op \in {"Constructor/params", "GetStorageAt/params"} :
          Dispatch(op, caller, method, params, NoFault)

\* the call's result goes back to the host; the actor takes the next call
Return ==
  /\ last # NoCall
  /\ last' = NoCall
  /\ UNCHANGED <<state, deleted>>

Next ==
  \/ Constructor
  \/ InvokeContract
  \/ InvokeContractMethod
  \/ GetBytecode
  \/ GetStorageAt
  \/ BadParams
  \/ Return

Spec == Init /\ [][Next]_vars

-----------------------------------------------------------------------------
(* What a call did, read from its record *)

Called(op) == last.op = op

Failed == last.op # "none" /\ ~last.ret.ok

Ran == InTrace(last.trace, "execute")

exec == last.host.exec

\* the engine returned an outcome that is not reverted and has status Success
CleanSuccess == Ran /\ exec.ok /\ ~exec.reverted /\ exec.status_code = Success

\* the call's state transaction was made and succeeded
Committed == InTrace(last.trace, "transaction") /\ last.host.fault # "transaction"

\* what get-storage-at of key k returns to `caller` in record st, under host behaviour h
Read(st, caller, k, h) ==
  storage_at([caller |-> caller, state |-> st, deleted |-> FALSE], [storage_key |-> k], h).ret

ReadHosts == [fault : StorageAtFaults, exec : {NoExec}]

-----------------------------------------------------------------------------
(* Claims *)

\* C1: every call that returns an error leaves the persisted record (its
\* existence, bytecode reference and contract_state root) as it was before
\* the call.
C1_FailedCallCommitsNothing == Failed => (state = last.pre /\ ~deleted)

\* C2: once a record exists its bytecode reference never changes: after any
\* call made on a record (constructor again, invoke with any outcome, the two
\* reads) the record, if still there, holds the reference it held before, a
\* get-bytecode returns exactly that reference, and a record goes away only
\* by deletion.
C2_BytecodeNeverChanges ==
  (last.op # "none" /\ last.pre # None) =>
     /\ state # None => state[1].bytecode = last.pre[1].bytecode
     /\ state = None => deleted
     /\ Called("GetBytecode") => last.ret = Ok(last.pre[1].bytecode)

\* C2 witness: an invoke committed a new trie root into an existing record
C2_Witness ==
  /\ Called("InvokeContract") /\ last.ret.ok /\ Committed
  /\ state # None
  /\ state[1].contract_state # last.pre[1].contract_state


\* C3 as stated: an invoke that writes V to K and whose engine outcome is a
\* non-reverted Success makes the next get-storage-at(K) by ID address 0
\* return V.
C3_SuccessfulWriteIsRead ==
  (Called("InvokeContract") /\ CleanSuccess /\ ~deleted) =>
     \A k \in DOMAIN exec.writes : Read(state, 0, k, NoFault) = Ok(exec.writes[k])

\* C3 amended: an invoke that writes V to K, whose engine outcome is a
\* non-reverted Success and whose trie flush and state transaction succeed,
\* makes the next get-storage-at(K) by ID address 0 return V (the actor not
\* being deleted by the call); when the flush or the transaction fails, every
\* key still reads as before the call.
C3_CommittedWriteIsRead ==
  (Called("InvokeContract") /\ CleanSuccess /\ ~deleted) =>
     IF Committed
     THEN \A k \in DOMAIN exec.writes : Read(state, 0, k, NoFault) = Ok(exec.writes[k])
     ELSE \A k \in Keys : Read(state, 0, k, NoFault) = Read(last.pre, 0, k, NoFault)

\* C3 witness: a committed invoke wrote a key to a value it did not hold
C3_Witness ==
  /\ Called("InvokeContract") /\ CleanSuccess /\ Committed /\ ~deleted
  /\ \E k \in DOMAIN exec.writes :
        /\ Read(last.pre, 0, k, NoFault) # Ok(exec.writes[k])
        /\ Read(state, 0, k, NoFault) = Ok(exec.writes[k])

\* C4: an invoke whose engine outcome is reverted fails with exit code 27 and
\* every key reads, for ID address 0, exactly as before the call, whatever
\* the program wrote before reverting.
C4_RevertCommitsNothing ==
  (Called("InvokeContract") /\ Ran /\ exec.ok /\ exec.reverted) =>
     /\ ~last.ret.ok
     /\ last.ret.err.exit_code = EVM_CONTRACT_REVERTED
     /\ ~deleted
     /\ \A k \in Keys, h \in ReadHosts : Read(state, 0, k, h) = Read(last.pre, 0, k, h)

\* C4 witness: the reverted program wrote a new value to a key that held one
C4_Witness ==
  /\ Called("InvokeContract") /\ Ran /\ exec.ok /\ exec.reverted
  /\ \E k \in DOMAIN exec.writes :
        /\ Read(last.pre, 0, k, NoFault).ok
        /\ Read(last.pre, 0, k, NoFault) # Ok(exec.writes[k])

\* C5: delete_actor is called only in an invoke whose engine outcome is a
\* non-reverted Success, and only after that call's state transaction has
\* committed the flushed root.
C5_DeleteOnlyAfterCommit ==
  \A i \in DOMAIN last.trace :
     last.trace[i] = "delete_actor" =>
        /\ Called("InvokeContract") /\ CleanSuccess
        /\ \E j \in 1..(i - 1) : last.trace[j] = "transaction"
        /\ Committed
        /\ deleted \/
             state = Some([last.pre[1] EXCEPT !.contract_state =
                flush_state(Kamt_set(Kamt_load(last.pre[1].contract_state), exec.writes))])

\* C5 witness: an invoke that stored a slot and self-destructed deleted the actor
C5_Witness ==
  /\ Called("InvokeContract") /\ InTrace(last.trace, "delete_actor") /\ deleted
  /\ exec.writes # <<>>

\* C6: get-storage-at by a caller other than ID address 0 fails with
\* forbidden before the record or the trie is loaded, whether or not the key
\* exists; a value or not-found is only ever returned to ID address 0.
C6_StorageAtForbidden ==
  Called("GetStorageAt") =>
     /\ last.caller # 0 =>
          /\ ~last.ret.ok
          /\ last.ret.err.exit_code = 18
          /\ last.trace = <<"validate_immediate_caller_is">>
          /\ state = last.pre
     /\ (last.ret.ok \/ last.ret.err.exit_code = 17) => last.caller = 0

\* C6 witness: another caller asked for a key that the trie holds
C6_Witness ==
  /\ Called("GetStorageAt") /\ last.caller # 0 /\ last.pre # None
  /\ last.key \in DOMAIN Kamt_load(last.pre[1].contract_state)

\* the deploy created the actor's record
Created == last.pre = None /\ state # None

NotFound == Err(not_found("storage key not found"))

\* C7 as stated, already for deploys in which no host call is made to fail:
\* deploy creates a record if and only if the engine outcome is not reverted,
\* has status Success and has non-empty output.
C7_RecordIffCleanNonEmpty ==
  (Called("Constructor") /\ last.host.fault = "none") =>
     (Created <=> (CleanSuccess /\ ~is_empty(exec.output_data)))

\* C7 amended: deploy creates a record if and only if the engine outcome is
\* not reverted, has status Success and has non-empty output, the actor has
\* no record yet and the trie flush and the record construction succeed; it
\* returns success exactly then.  A reverted constructor yields exit code 27
\* and no record, a clean success with empty output fails with no record, and
\* whenever no record is created the record is as before the call.
C7_RecordIffCleanNonEmptyAndStored ==
  Called("Constructor") =>
     /\ Created <=> /\ CleanSuccess /\ ~is_empty(exec.output_data)
                    /\ last.pre = None
                    /\ last.host.fault \notin {"flush_state", "State::new"}
     /\ Created <=> last.ret.ok
     /\ (Ran /\ exec.ok /\ exec.reverted) =>
          (~last.ret.ok /\ last.ret.err.exit_code = EVM_CONTRACT_REVERTED)
     /\ (CleanSuccess /\ is_empty(exec.output_data)) =>
          (~last.ret.ok /\ last.ret.err.exit_code = 23)
     /\ ~Created => state = last.pre

\* C7 witness: a deploy created the record
C7_Witness == Called("Constructor") /\ Created /\ CleanSuccess

\* C8: after a deploy that succeeds, the record's bytecode reference resolves
\* to the engine's output bytes, whatever bytecode was submitted.
C8_RecordHoldsOutput ==
  (Called("Constructor") /\ last.ret.ok) =>
     /\ state # None
     /\ state[1].bytecode.codec = "raw"
     /\ store_get(state[1].bytecode) = exec.output_data

\* C8 witness: the deployed code differs from the submitted bytecode
C8_Witness ==
  /\ Called("Constructor") /\ last.ret.ok
  /\ exec.output_data # last.bytecode

\* C9 as stated: right after a successful deploy every key reads NotFound
\* for ID address 0.
C9_TrieEmptyAfterDeploy ==
  (Called("Constructor") /\ last.ret.ok) =>
     \A k \in Keys : Read(state, 0, k, NoFault) = NotFound

\* C9 amended: right after a successful deploy the trie holds exactly the
\* slots the constructor program stored: a key it wrote reads as the value
\* written, every other key reads NotFound.
C9_TrieHoldsConstructorWrites ==
  (Called("Constructor") /\ last.ret.ok) =>
     \A k \in Keys :
        Read(state, 0, k, NoFault) =
           IF k \in DOMAIN exec.writes THEN Ok(exec.writes[k]) ELSE NotFound

\* C9 witness: a successful deploy whose program stored a slot
C9_Witness ==
  /\ Called("Constructor") /\ last.ret.ok
  /\ exec.writes # <<>>

\* C10: deploy rejects the submitted bytecode with illegal-argument, right
\* after the caller check, exactly when its length is 0 or above 24576; then
\* no trie is opened, the engine is not run and no record is created, and
\* any other length goes on to open the trie.
C10_SizeCheck ==
  Called("Constructor") =>
     LET bad == last.bytecode.len = 0 \/ last.bytecode.len > 24576
         rejected == /\ ~last.ret.ok
                     /\ last.ret.err.exit_code = 16
                     /\ last.trace = <<"validate_immediate_caller_accept_any">>
     IN /\ bad <=> rejected
        /\ rejected => /\ state = last.pre
                       /\ ~InTrace(last.trace, "Kamt::new_with_config")
                       /\ ~Ran
                       /\ ~InTrace(last.trace, "create")
        /\ ~bad => InTrace(last.trace, "Kamt::new_with_config")

\* C10 witness: 24576 bytes passed the check and the engine ran
C10_Witness ==
  /\ Called("Constructor") /\ last.bytecode.len = 24576 /\ Ran

\* what the record of a call shows when the reserved method ids are `ctor`, 2, 3
\* and 4: the operation reached, the empty payload of a deploy, and the call
\* context of an invoke
RoutedWithConstructorAt(ctor) ==
  last.op # "none" =>
    /\ (last.method = ctor) =>
         /\ last.op \in {"Constructor", "Constructor/params"}
         /\ (Called("Constructor") /\ last.ret.ok) => (last.reply = Ok(RawBytes_default))
    /\ (last.method = 2) =>
         /\ Called("InvokeContract")
         /\ Ran => (last.ctx = Some([method |-> 2, input |-> last.params]))
    /\ (last.method = 3) => Called("GetBytecode")
    /\ (last.method = 4) => (last.op \in {"GetStorageAt", "GetStorageAt/params"})
    /\ (last.method \notin {ctor, 2, 3, 4}) =>
         /\ Called("InvokeContract")
         /\ Ran => (last.ctx = Some([method |-> last.method, input |-> last.params]))

\* C11: the reserved method ids are 0, 2, 3 and 4; id 0 is routed to deploy
\* and returns an empty payload, id 2 to invoke with the call context's method
\* 2, id 3 to get-bytecode, id 4 to get-storage-at; id 1, like every other id,
\* is a contract-defined entry point that is not routed to deploy
C11_ReservedIdsFromZero == RoutedWithConstructorAt(0)

\* what the built-in invoke (method 2) does with the last call's caller,
\* parameter bytes, record and host behaviour
BuiltinInvoke ==
  invoke_method([caller |-> last.caller, state |-> last.pre, deleted |-> FALSE],
                2, last.params, last.host)

\* C12: a call whose method number is none of the enum's (0 and 1000000 here)
\* is never rejected as unknown: it is routed to invoke, the engine gets that
\* number as the call context's method and the raw parameter bytes as input,
\* and the call returns, commits, reverts and self-destructs as the built-in
\* invoke does on the same record with the same engine and host behaviour
C12_UnmappedMethodInvokes ==
  (last.op # "none" /\ last.method \notin {1, 2, 3, 4}) =>
    /\ Called("InvokeContract")
    /\ Ran => (last.ctx = Some([method |-> last.method, input |-> last.params]))
    /\ last.ret = BuiltinInvoke.ret
    /\ last.reply = BuiltinInvoke.reply
    /\ last.trace = BuiltinInvoke.trace
    /\ state = BuiltinInvoke.rt.state
    /\ deleted = BuiltinInvoke.rt.deleted

\* method 1000000 ran the program on call data, committed its write and
\* returned its output
C12_Witness ==
  /\ last.method = 1000000
  /\ Called("InvokeContract")
  /\ last.params = CallData
  /\ last.ctx = Some([method |-> 1000000, input |-> CallData])
  /\ CleanSuccess
  /\ Committed
  /\ state # last.pre
  /\ last.reply = Ok(Raw(exec.output_data))

\* C13: in every reachable state where a record exists, the deployed code its
\* bytecode reference resolves to is between 1 and 24576 bytes long
C13_PersistedCodeWithinLimit ==
  state # None =>
    LET code == store_get(state[1].bytecode)
    IN 1 <= code.len /\ code.len <= 24576

\* the call wrote to the actor's persistent state: it flushed the trie,
\* created the record, ran the state transaction or deleted the actor
Wrote ==
  \/ InTrace(last.trace, "flush_state")
  \/ InTrace(last.trace, "create")
  \/ InTrace(last.trace, "transaction")
  \/ InTrace(last.trace, "delete_actor")
  \/ state # last.pre
  \/ deleted

\* C14: in deploy and in invoke a reverted outcome fails the call with exit
\* code 27 and commits and deletes nothing, whatever its status and
\* self-destruct target are; state is committed only on an outcome that is not
\* reverted and has status Success
C14_RevertedTakesPrecedence ==
  /\ (last.op \in {"Constructor", "InvokeContract"} /\ Ran /\ exec.ok /\ exec.reverted) =>
       /\ ~last.ret.ok
       /\ last.ret.err.exit_code = 27
       /\ last.reply = last.ret
       /\ ~Wrote
  /\ (last.op # "none" /\ Wrote) => CleanSuccess

\* an invoke whose outcome is reverted with status Success, a write and a
\* self-destruct target
C14_Witness ==
  /\ Called("InvokeContract")
  /\ Ran
  /\ exec.ok
  /\ exec.reverted
  /\ exec.status_code = Success
  /\ exec.selfdestroyed # None
  /\ exec.writes # <<>>
  /\ last.ret.err.exit_code = 27

\* the engine reported a typed fault: as the error of the run, or as the
\* status of a completed outcome that is not reverted
TypedFault ==
  /\ Ran
  /\ exec.status_code.tag = "ActorError"
  /\ ~exec.ok \/ ~exec.reverted

\* the engine failed without a typed fault: the run returned another error, or
\* a completed outcome that is not reverted has a status that is neither
\* Success nor a typed fault
UntypedFailure ==
  /\ Ran
  /\ exec.status_code.tag \notin {"ActorError", "Success"}
  /\ ~exec.ok \/ ~exec.reverted

\* C15: deploy and invoke return a typed fault of the engine unmodified, on
\* both paths it arrives by, and commit nothing; every other engine failure is
\* returned as an unspecified error (exit code 23)
C15_TypedFaultUnmodified ==
  /\ (last.op \in {"Constructor", "InvokeContract"} /\ TypedFault) =>
       /\ last.ret = Err(exec.status_code.e[1])
       /\ last.reply = last.ret
       /\ ~Wrote
  /\ (last.op \in {"Constructor", "InvokeContract"} /\ UntypedFailure) =>
       /\ ~last.ret.ok
       /\ last.ret.err.exit_code = 23
       /\ ~Wrote

\* an invoke whose engine run returned the typed fault as its error
C15_Witness ==
  /\ Called("InvokeContract")
  /\ TypedFault
  /\ ~exec.ok
  /\ last.ret.err \in TypedFaults

\* what an invoke returns on a reverted outcome: exit code 27 and no bytes
RevertedReturnsOnlyCode ==
  (Ran /\ exec.ok /\ exec.reverted) =>
    (~last.reply.ok /\ last.reply.err.exit_code = 27)

\* C16 as stated: invoke returns the outcome's output bytes exactly when the
\* outcome is a non-reverted Success; on a reverted outcome it returns exit
\* code 27 and no bytes
C16_OutputIffCleanSuccess ==
  Called("InvokeContract") =>
    /\ last.reply.ok <=> CleanSuccess
    /\ last.reply.ok => (last.reply = Ok(Raw(exec.output_data)))
    /\ RevertedReturnsOnlyCode

\* C16: invoke returns the outcome's output bytes exactly when the outcome is
\* a non-reverted Success and the flush, the state transaction and the
\* deletion of a self-destructed actor do not fail; on a reverted outcome it
\* returns exit code 27 and no bytes
C16_OutputIffCleanSuccessAndStored ==
  Called("InvokeContract") =>
    /\ last.reply.ok <=> (CleanSuccess /\ last.host.fault = "none")
    /\ last.reply.ok => (last.reply = Ok(Raw(exec.output_data)))
    /\ RevertedReturnsOnlyCode

\* an invoke that self-destructed the actor and returned the program's output
C16_Witness ==
  /\ Called("InvokeContract")
  /\ CleanSuccess
  /\ exec.selfdestroyed # None
  /\ deleted
  /\ exec.output_data.len > 0
  /\ last.reply = Ok(Raw(exec.output_data))

\* in the call's trace every call of `a` is preceded by a call of `b`
Before(b, a) ==
  \A i \in DOMAIN last.trace :
     (last.trace[i] = a) => \E j \in 1..(i - 1) : last.trace[j] = b

\* C17: an invoke whose deployed code cannot be read from the byte store (or
\* does not parse) fails with an unspecified error (exit code 23), and one
\* whose storage trie cannot be loaded fails with an illegal-state error (exit
\* code 20); neither runs the engine, commits or deletes; the code is read and
\* parsed before the trie is loaded, and both before the engine runs
C17_NoRunOnBadData ==
  Called("InvokeContract") =>
    /\ (last.host.fault \in {"store.get", "store.get/None", "Bytecode::new"}) =>
         /\ ~last.ret.ok
         /\ last.ret.err.exit_code = 23
         /\ ~InTrace(last.trace, "Kamt::load_with_config")
         /\ ~Ran
         /\ ~Wrote
    /\ (last.host.fault = "Kamt::load_with_config") =>
         /\ ~last.ret.ok
         /\ last.ret.err.exit_code = 20
         /\ ~Ran
         /\ ~Wrote
    /\ Before("store.get", "Bytecode::new")
    /\ Before("Bytecode::new", "Kamt::load_with_config")
    /\ Before("Kamt::load_with_config", "execute")

\* an invoke that read and parsed the code and then failed to load the trie
C17_Witness ==
  /\ Called("InvokeContract")
  /\ last.host.fault = "Kamt::load_with_config"
  /\ InTrace(last.trace, "Bytecode::new")
  /\ last.ret.err.exit_code = 20
  /\ state = last.pre

\* C18: get-bytecode and get-storage-at, for every caller and argument and
\* whether they succeed or fail, leave the record as it was, never flush the
\* trie, never run the engine and never create, commit or delete anything
C18_ReadsAreReadOnly ==
  (last.op \in {"GetBytecode", "GetStorageAt", "GetStorageAt/params"}) =>
    /\ state = last.pre
    /\ ~deleted
    /\ ~Ran
    /\ ~Wrote

\* a get-storage-at that read a stored value
C18_Witness ==
  /\ Called("GetStorageAt")
  /\ last.ret.ok
  /\ last.reply = Ok(serialize("U256", last.ret.val))
  /\ state # None
  /\ state = last.pre

====
